---- MODULE Spec2Model ----
(***************************************************************************)
(* A model of tags2name.py: the tag normaliser (FileTags), the file        *)
(* renamer (rename_file), the folder consolidator (scan_album_folder) and  *)
(* the directory walker (walklevel, tags2name).                            *)
(*                                                                         *)
(* Python strings are sequences of one-character strings, so that          *)
(* str.replace, str.zfill, str.strip and the regular expressions of the    *)
(* source are computed character by character.  A Python value that may be *)
(* a str, None or a time stamp object is a record [t, s, y].               *)
(***************************************************************************)
EXTENDS Integers, Sequences, FiniteSets, TLC

VARIABLES
    \* ---- tag normaliser (one FileTags object) ----
    raw,        \* the decoded tag mapping handed to set_tags
    ftags,      \* FileTags._tags
    prev,       \* FileTags._tags as it was before the last scrub()
    tpc,        \* position: "new", "set", "scrubbed", "rescrubbed"
    \* ---- the file system ----
    dirs,       \* the directories, as resolved paths, in creation order
    files,      \* the files: [id, dir, name, corrupt, tags]
    \* ---- tags2name(recursion_level) ----
    level,      \* recursion_level
    pc,         \* "walk", "rename", "summary", "done", "crashed"
    todo,       \* the directories os.walk has still to yield, next first
    result,     \* result of tags2name
    total_dirs, \* total_dirs of tags2name
    scans,      \* what each call of scan_album_folder computed, in call order
    ri,         \* how many folder renames the loop of lines 241-246 has attempted
    out         \* the RENAMED FOLDER / ERROR lines printed, in order

tvars == <<raw, ftags, prev, tpc>>
wvars == <<dirs, files, level, pc, todo, result, total_dirs, scans, ri, out>>
vars == <<tvars, wvars>>

-----------------------------------------------------------------------------
(* Bounds of the model *)

\* longest track-number text drawn as an input
MaxTrackLen == 4
\* longest album text drawn as an input of the normaliser
MaxTextLen == 2
\* largest recursion level drawn as an input
MaxLevel == 2
\* a directory listing of at most this many entries is explored in every order
MaxShuffle == 2

-----------------------------------------------------------------------------
(* Python values *)

StrV(s) == [t |-> "str", s |-> s, y |-> 0]
NoneV == [t |-> "none", s |-> <<>>, y |-> 0]
\* an object with a .year attribute (mutagen's ID3TimeStamp)
TsV(y) == [t |-> "ts", s |-> <<>>, y |-> y]

IsStr(v) == v.t = "str"
\* Python truthiness of a str-or-None value
Truthy(v) == v.t = "ts" \/ (v.t = "str" /\ v.s # <<>>)

RECURSIVE StrsUpTo(_, _)
\* every string over the characters cs of length at most n
StrsUpTo(cs, n) ==
    IF n = 0 THEN {<<>>}
    ELSE LET shorter == StrsUpTo(cs, n - 1)
         IN  shorter \cup {<<c>> \o s : c \in cs, s \in {x \in shorter : Len(x) = n - 1}}

Digits == {"0", "1", "2", "3", "4", "5", "6", "7", "8", "9"}
Letters == {"a", "b", "c", "f", "l", "m", "p", "t", "x", "D", "E", "T", "U", "X", "Y"}
\* \w of the re module, over the characters the model uses
WordChars == Digits \cup Letters \cup {"_"}
Whitespace == {" "}

DigitOf(d) ==
    CASE d = 0 -> "0" [] d = 1 -> "1" [] d = 2 -> "2" [] d = 3 -> "3" [] d = 4 -> "4"
      [] d = 5 -> "5" [] d = 6 -> "6" [] d = 7 -> "7" [] d = 8 -> "8" [] d = 9 -> "9"

RECURSIVE PyStr(_)
\* str(n) of a non-negative int
PyStr(n) == IF n < 10 THEN <<DigitOf(n)>> ELSE PyStr(n \div 10) \o <<DigitOf(n % 10)>>

StartsWith(s, p) == Len(p) <= Len(s) /\ SubSeq(s, 1, Len(p)) = p

RECURSIVE PyReplaceEmpty(_, _)
\* s.replace(sub, ''): every non-overlapping occurrence of sub, left to right
PyReplaceEmpty(s, sub) ==
    IF s = <<>> \/ sub = <<>> THEN s
    ELSE IF StartsWith(s, sub) THEN PyReplaceEmpty(SubSeq(s, Len(sub) + 1, Len(s)), sub)
    ELSE <<Head(s)>> \o PyReplaceEmpty(Tail(s), sub)

RECURSIVE DigitRun(_)
\* length of the longest prefix of s made of digits
DigitRun(s) == IF s # <<>> /\ Head(s) \in Digits THEN 1 + DigitRun(Tail(s)) ELSE 0

\* re.match(r'(\d+)/', s) is not None
MatchesNumSlash(s) ==
    LET k == DigitRun(s) IN k >= 1 /\ Len(s) > k /\ s[k + 1] = "/"

\* match.group(1) of re.match(r'(\d+)/', s)
NumSlashGroup(s) == SubSeq(s, 1, DigitRun(s))

RECURSIVE Zeros(_)
Zeros(n) == IF n <= 0 THEN <<>> ELSE <<"0">> \o Zeros(n - 1)

\* s.zfill(width): zeros on the left, after a leading sign
Zfill(s, width) ==
    IF Len(s) >= width THEN s
    ELSE IF s # <<>> /\ Head(s) \in {"+", "-"}
         THEN <<Head(s)>> \o Zeros(width - Len(s)) \o Tail(s)
         ELSE Zeros(width - Len(s)) \o s

-----------------------------------------------------------------------------
(* FileTags *)

TagNames ==
    {"album", "artist", "album_artist", "title", "track_num", "disc_num", "year", "orig_year"}

\* FileTags.TAG_TYPES ("(c)" stands for the copyright sign of the MP4 keys)
TAG_TYPES ==
    [album        |-> <<"TALB", "ALBUM", "Album", "(c)alb">>,
     artist       |-> <<"TPE1", "ARTIST", "Artist", "(c)ART">>,
     album_artist |-> <<"TPE2", "ALBUMARTIST", "Album Artist", "aART">>,
     title        |-> <<"TIT2", "TITLE", "Title", "(c)nam">>,
     track_num    |-> <<"TRCK", "TRACKNUMBER", "Track", "trkn">>,
     disc_num     |-> <<"TPOS", "DISCNUMBER", "Disc", "disk">>,
     year         |-> <<"TYER", "Year", "DATE", "TDRC", "(c)day">>,
     orig_year    |-> <<"TORY", "ORIGINALYEAR", "TDOR", "ORIGINALDATE">>]

\* FileTags.FORBIDDEN ("NUL" stands for the character '\0')
FORBIDDEN == <<"<", ">", ":", "\"", "/", "\\", "|", "?", "*", "NUL">>

ForbiddenChars == {FORBIDDEN[i] : i \in 1..Len(FORBIDDEN)}

\* FileTags.__init__
NewTags ==
    [album |-> StrV(<<>>), artist |-> StrV(<<>>), album_artist |-> StrV(<<>>),
     title |-> StrV(<<>>), track_num |-> StrV(<<>>), disc_num |-> StrV(<<>>),
     year |-> NoneV, orig_year |-> NoneV]

\* the first alias of tag_name, from position i on, that is a key of tgs (0: none)
RECURSIVE FirstDesc(_, _, _)
FirstDesc(tgs, descs, i) ==
    IF i > Len(descs) THEN 0
    ELSE IF descs[i] \in DOMAIN tgs THEN i
    ELSE FirstDesc(tgs, descs, i + 1)

\* the loop of set_tags: tags[desc][0] of a list, tags[desc].text[0] of a frame
Extract(old, tgs) ==
    [tag_name \in TagNames |->
        LET i == FirstDesc(tgs, TAG_TYPES[tag_name], 1)
        IN  IF i = 0 THEN old[tag_name]
            ELSE LET v == tgs[TAG_TYPES[tag_name][i]]
                 IN  IF v.kind = "list" THEN v.items[1] ELSE v.text[1]]

\* the track number without the zfill(2) of line 74
FormatTrackUnpadded(s) == IF MatchesNumSlash(s) THEN NumSlashGroup(s) ELSE s

\* track number formatting
FormatTrack(s) ==
    Zfill(IF MatchesNumSlash(s) THEN NumSlashGroup(s) ELSE s, 2)

\* disc number formatting
FormatDisc(s) ==
    LET d == IF MatchesNumSlash(s) THEN NumSlashGroup(s) ELSE s
    IN  IF d = <<>> THEN <<"1">> ELSE d

\* date formatting
FormatYear(v) ==
    IF ~IsStr(v) THEN (IF v # NoneV THEN StrV(PyStr(v.y)) ELSE v) ELSE v

\* FileTags.set_tags
SetTags(old, tgs) ==
    LET e == Extract(old, tgs)
    IN  [e EXCEPT !.track_num = StrV(FormatTrack(e.track_num.s)),
                  !.disc_num = StrV(FormatDisc(e.disc_num.s)),
                  !.year = FormatYear(e.year),
                  !.orig_year = FormatYear(e.orig_year)]

RECURSIVE RemoveChars(_, _, _)
\* the inner loop of scrub: clean.replace(forbidden_char, '') for each one in turn
RemoveChars(clean, forbidden, i) ==
    IF i > Len(forbidden) THEN clean
    ELSE RemoveChars(PyReplaceEmpty(clean, <<forbidden[i]>>), forbidden, i + 1)

RECURSIVE RemoveFirst(_, _)
RemoveFirst(s, c) ==
    IF s = <<>> THEN s
    ELSE IF Head(s) = c THEN Tail(s)
    ELSE <<Head(s)>> \o RemoveFirst(Tail(s), c)

RECURSIVE RemoveFirstOfEach(_, _, _)
RemoveFirstOfEach(clean, forbidden, i) ==
    IF i > Len(forbidden) THEN clean
    ELSE RemoveFirstOfEach(RemoveFirst(clean, forbidden[i]), forbidden, i + 1)

\* a scrub that drops only the first occurrence of each forbidden character
ScrubFirstOnly(tgs) ==
    [tag \in DOMAIN tgs |->
        IF ~IsStr(tgs[tag]) THEN tgs[tag]
        ELSE StrV(RemoveFirstOfEach(tgs[tag].s, FORBIDDEN, 1))]

\* FileTags.scrub
Scrub(tgs) ==
    [tag \in DOMAIN tgs |->
        IF ~IsStr(tgs[tag]) THEN tgs[tag]
        ELSE StrV(RemoveChars(tgs[tag].s, FORBIDDEN, 1))]

-----------------------------------------------------------------------------
(* rename_file: the name a file gets from its tags *)

YEAR_ENCLOSER == <<"[", "]">>
SEPARATOR == <<" ", "-", " ">>
VALID_FILE_TYPES == {<<".", "m", "p", "3">>, <<".", "f", "l", "a", "c">>}

\* file_tags['album_artist'] or file_tags['artist']
EffectiveArtist(tgs) ==
    IF tgs.album_artist.s # <<>> THEN tgs.album_artist.s ELSE tgs.artist.s

\* the test of lines 129-130: the tags cannot build a name
TagsMissing(tgs) ==
    \/ EffectiveArtist(tgs) = <<>>
    \/ tgs.album.s = <<>>
    \/ tgs.disc_num.s = <<>>
    \/ tgs.title.s = <<>>

\* new_name of rename_file
NewName(tgs, ext) ==
    EffectiveArtist(tgs) \o SEPARATOR \o tgs.album.s \o SEPARATOR \o tgs.disc_num.s
        \o <<"-">> \o tgs.track_num.s \o SEPARATOR \o tgs.title.s \o ext

\* oldest_year of rename_file
OldestYear(tgs) == IF ~Truthy(tgs.orig_year) THEN tgs.year ELSE tgs.orig_year

\* folder_name of scan_album_folder
FolderName(year, album) ==
    <<YEAR_ENCLOSER[1]>> \o year \o <<YEAR_ENCLOSER[2]>> \o <<" ">> \o album

-----------------------------------------------------------------------------
(* Inputs of the tag normaliser: what mutagen hands to set_tags *)

ID3Key(tag_name, v) ==
    CASE tag_name = "album" -> "TALB" [] tag_name = "artist" -> "TPE1"
      [] tag_name = "album_artist" -> "TPE2" [] tag_name = "title" -> "TIT2"
      [] tag_name = "track_num" -> "TRCK" [] tag_name = "disc_num" -> "TPOS"
      [] tag_name = "year" -> (IF v.t = "ts" THEN "TDRC" ELSE "TYER")
      [] tag_name = "orig_year" -> (IF v.t = "ts" THEN "TDOR" ELSE "TORY")

FLACKey(tag_name) ==
    CASE tag_name = "album" -> "ALBUM" [] tag_name = "artist" -> "ARTIST"
      [] tag_name = "album_artist" -> "ALBUMARTIST" [] tag_name = "title" -> "TITLE"
      [] tag_name = "track_num" -> "TRACKNUMBER" [] tag_name = "disc_num" -> "DISCNUMBER"
      [] tag_name = "year" -> "DATE" [] tag_name = "orig_year" -> "ORIGINALYEAR"

\* the mapping ID3(path) returns for a file holding the values f (NoneV: no frame)
ID3Tags(f) ==
    LET present == {n \in TagNames : f[n] # NoneV}
    IN  [k \in {ID3Key(n, f[n]) : n \in present} |->
            [kind |-> "frame", items |-> <<>>,
             text |-> <<f[CHOOSE n \in present : ID3Key(n, f[n]) = k]>>]]

\* the mapping FLAC(path) returns: every value a list of str
FLACTags(f) ==
    LET present == {n \in TagNames : f[n] # NoneV}
    IN  [k \in {FLACKey(n) : n \in present} |->
            [kind |-> "list", text |-> <<>>,
             items |-> <<f[CHOOSE n \in present : FLACKey(n) = k]>>]]

BaseValues ==
    [album |-> StrV(<<"D">>), artist |-> StrV(<<"X">>), album_artist |-> NoneV,
     title |-> StrV(<<"T">>), track_num |-> StrV(<<"3">>), disc_num |-> NoneV,
     year |-> StrV(<<"2", "0", "2", "0">>), orig_year |-> NoneV]

TrackChars == {"1", "2", "3", "7", "/"}
TextChars == ForbiddenChars \cup {"D"}

TrackInputs ==
    {[BaseValues EXCEPT !.track_num = tr, !.disc_num = d] :
        tr \in {NoneV} \cup {StrV(s) : s \in StrsUpTo(TrackChars, MaxTrackLen)},
        d \in {NoneV, StrV(<<>>), StrV(<<"2">>), StrV(<<"2", "/", "2">>)}}

TextInputs ==
    {[BaseValues EXCEPT !.album = StrV(a), !.artist = ar, !.album_artist = aa] :
        a \in StrsUpTo(TextChars, MaxTextLen),
        ar \in {NoneV, StrV(<<"X">>), StrV(<<"X", ":">>)},
        aa \in {NoneV, StrV(<<>>), StrV(<<"Y", "|">>)}}

YearInputs ==
    {[BaseValues EXCEPT !.year = yr, !.orig_year = oy, !.title = ti] :
        yr \in {NoneV, StrV(<<>>), StrV(<<"2", "0", "2", "0">>), StrV(<<"2", "0", "/", "2">>),
                TsV(2020)},
        oy \in {NoneV, StrV(<<>>), StrV(<<"1", "9", "9", "9">>), TsV(1999)},
        ti \in {NoneV, StrV(<<"T">>), StrV(<<"T", "*">>)}}

TagInputs == TrackInputs \cup TextInputs \cup YearInputs

\* FLAC values are str; only ID3 frames hold time stamps
RawInputs ==
    {ID3Tags(f) : f \in TagInputs}
        \cup {FLACTags(f) : f \in {g \in TagInputs : \A n \in TagNames : g[n].t # "ts"}}

-----------------------------------------------------------------------------
(* Paths and the file system *)

Seps == {"/", "\\"}

Range(q) == {q[i] : i \in 1..Len(q)}

RECURSIVE Reverse(_)
Reverse(q) == IF q = <<>> THEN <<>> ELSE Reverse(Tail(q)) \o <<Head(q)>>

RECURSIVE CountChar(_, _)
\* s.count(c)
CountChar(s, c) ==
    IF s = <<>> THEN 0 ELSE (IF Head(s) = c THEN 1 ELSE 0) + CountChar(Tail(s), c)

RECURSIVE TrailingRun(_, _)
\* length of the longest suffix of s made of characters of cs
TrailingRun(s, cs) ==
    IF s # <<>> /\ s[Len(s)] \in cs THEN 1 + TrailingRun(SubSeq(s, 1, Len(s) - 1), cs) ELSE 0

RECURSIVE LeadingRun(_, _)
LeadingRun(s, cs) ==
    IF s # <<>> /\ Head(s) \in cs THEN 1 + LeadingRun(Tail(s), cs) ELSE 0

\* s.strip()
PyStrip(s) ==
    LET a == LeadingRun(s, Whitespace)
        b == TrailingRun(s, Whitespace)
    IN  IF a = Len(s) THEN <<>> ELSE SubSeq(s, a + 1, Len(s) - b)

\* re.search(r'.\w+$', file): <<>> when there is no match, else the match
ExtOf(file) ==
    LET k == TrailingRun(file, WordChars)
    IN  IF k = 0 THEN <<>>
        ELSE IF k = Len(file) THEN (IF k >= 2 THEN file ELSE <<>>)
        ELSE SubSeq(file, Len(file) - k, Len(file))

\* re.search(r'[^\\/]+[\\/]?$', folder).group(): the trailing path component
TrailingComponent(folder) ==
    LET t == IF folder # <<>> /\ folder[Len(folder)] \in Seps THEN 1 ELSE 0
        body == SubSeq(folder, 1, Len(folder) - t)
        k == TrailingRun(body, {c \in Range(body) : c \notin Seps})
    IN  SubSeq(folder, Len(folder) - t - k + 1, Len(folder))

\* parent_path of scan_album_folder
ParentPath(folder) == PyReplaceEmpty(folder, TrailingComponent(folder))

\* lines 177-183: trailing dots cut by re.search(r'(.*?)\.+$', ...), then strip()
BaseDir(parent_path, folder_name) ==
    LET whole == parent_path \o folder_name
        k == TrailingRun(whole, {"."})
    IN  PyStrip(SubSeq(whole, 1, Len(whole) - k))

RECURSIVE Collapse(_)
Collapse(s) ==
    IF Len(s) < 2 THEN s
    ELSE IF s[1] = "/" /\ s[2] = "/" THEN Collapse(Tail(s))
    ELSE <<Head(s)>> \o Collapse(Tail(s))

\* the path the operating system resolves: repeated and trailing separators dropped
Resolve(path) ==
    LET c == Collapse(path)
    IN  IF Len(c) > 1 /\ c[Len(c)] = "/" THEN SubSeq(c, 1, Len(c) - 1) ELSE c

\* the directory holding the resolved path p
DirOf(p) ==
    LET k == TrailingRun(p, {c \in Range(p) : c # "/"})
    IN  IF k = Len(p) THEN <<".">> ELSE SubSeq(p, 1, Len(p) - k - 1)

\* os.path.join(top, name) of os.walk
Join(top, name) == top \o <<"/">> \o name

\* p is the directory d or lies below it
Below(d, p) == p = d \/ StartsWith(p, d \o <<"/">>)

\* os.path.isdir(path), dirs the directories that exist
IsDir(ds, path) == Resolve(path) \in Range(ds)

-----------------------------------------------------------------------------
(* rename_file *)

NoFolderData == [some |-> FALSE, year |-> NoneV, album |-> <<>>, class |-> "none"]
FolderData(year, album, class) ==
    [some |-> TRUE, year |-> year, album |-> album, class |-> class]

FileAt(fs, folder, file) == {f \in fs : f.dir = Resolve(folder) /\ f.name = file}

\* os.rename(full_path, folder + '/' + new_name) on a file: rename(2) replaces a
\* target that exists; fails: the call raises OSError and changes nothing
RenameFileOnDisk(fs, folder, file, new_name, fails) ==
    LET src == FileAt(fs, folder, file)
        dst == FileAt(fs, folder, new_name)
    IN  IF fails THEN [files |-> fs, raised |-> TRUE]
        ELSE [files |-> (fs \ (src \cup dst))
                            \cup {[f EXCEPT !.name = new_name] : f \in src},
              raised |-> FALSE]

\* rename_file(folder, file): the files afterwards, the tuple returned (NoFolderData
\* for None) and whether os.rename raised
RenameFile(fs, folder, file, fails) ==
    LET ext == ExtOf(file)
        here == FileAt(fs, folder, file)
        quiet(fd) == [files |-> fs, folder_d |-> fd, raised |-> FALSE]
    IN  IF ext = <<>> \/ ext \notin VALID_FILE_TYPES THEN quiet(NoFolderData)
        ELSE IF here = {} \/ (\E f \in here : f.corrupt)
        THEN quiet(FolderData(NoneV, <<>>, "missing"))
        ELSE LET f == CHOOSE g \in here : TRUE
                 file_tags == Scrub(SetTags(NewTags, f.tags))
                 new_name == NewName(file_tags, ext)
                 oldest_year == OldestYear(file_tags)
             IN  IF TagsMissing(file_tags) THEN quiet(FolderData(NoneV, <<>>, "missing"))
                 ELSE IF file # new_name
                 THEN LET r == RenameFileOnDisk(fs, folder, file, new_name, fails)
                      IN  [files |-> r.files, raised |-> r.raised,
                           folder_d |-> FolderData(oldest_year, file_tags.album.s, "renamed")]
                 ELSE quiet(FolderData(oldest_year, file_tags.album.s, "unchanged"))

-----------------------------------------------------------------------------
(* scan_album_folder *)

ProbeLimit == 100

NoCounts == [found |-> 0, renamed |-> 0, unchanged |-> 0, missing |-> 0]

RECURSIVE FileLoop(_, _, _, _)
\* the loop of lines 160-165 from file_list[i] on; st holds the files on disk,
\* folder_data, folder_counts and whether a rename raised (the loop then ends);
\* st.fail_at is the position in file_list of the file whose os.rename fails (0: none)
FileLoop(folder, file_list, i, st) ==
    IF i > Len(file_list) \/ st.raised THEN st
    ELSE LET r == RenameFile(st.files, folder, file_list[i], i = st.fail_at)
             d == r.folder_d
         IN  FileLoop(folder, file_list, i + 1,
                 IF r.raised THEN [st EXCEPT !.raised = TRUE]
                 ELSE IF ~d.some THEN st
                 ELSE [st EXCEPT !.files = r.files,
                                 !.folder_data = Append(@, d),
                                 !.counts = [@ EXCEPT ![d.class] = @ + 1,
                                                      !.found = @ + 1]])

\* the test without its all(...): only the first file is looked at
UnanimousFirstOnly(folder_data) ==
    /\ folder_data # <<>>
    /\ Truthy(folder_data[1].year)
    /\ folder_data[1].album # <<>>

\* the test over the files that are not missing only
UnanimousSkipsMissing(folder_data) ==
    LET kept == SelectSeq(folder_data, LAMBDA d : d.class # "missing")
    IN  /\ kept # <<>>
        /\ Truthy(kept[1].year)
        /\ kept[1].album # <<>>
        /\ \A i \in 1..Len(kept) :
              /\ kept[i].year = kept[1].year
              /\ kept[i].album = kept[1].album

\* the test of lines 166-170
Unanimous(folder_data) ==
    /\ folder_data # <<>>
    /\ Truthy(folder_data[1].year)
    /\ folder_data[1].album # <<>>
    /\ \A i \in 1..Len(folder_data) :
          /\ folder_data[i].year = folder_data[1].year
          /\ folder_data[i].album = folder_data[1].album

\* a probe that takes the base name without looking
ProbeOnce(ds, folder, base_dir, try_dir, counter) == try_dir

RECURSIVE Probe(_, _, _, _, _)
\* the loop of lines 185-189: try_dir when it ends
Probe(ds, folder, base_dir, try_dir, counter) ==
    IF IsDir(ds, try_dir) /\ counter < ProbeLimit
    THEN IF try_dir = folder THEN try_dir
         ELSE Probe(ds, folder, base_dir,
                    base_dir \o <<" ", "(">> \o PyStr(counter) \o <<")">>, counter + 1)
    ELSE try_dir

\* lines 166-191: what the folder is to be renamed to.  probed: the branch of line 175
\* was taken; folder_rename: <<>> (the '' of line 153) or <<folder, try_dir>>
FolderRename(ds, folder, folder_data) ==
    LET none == [probed |-> FALSE, base_dir |-> <<>>, folder_rename |-> <<>>]
    IN  IF ~Unanimous(folder_data) THEN none
        ELSE LET folder_name == FolderName(folder_data[1].year.s, folder_data[1].album)
                 parent_path == ParentPath(folder)
             IN  IF folder = <<".">> \/ folder = parent_path \o folder_name THEN none
                 ELSE LET base_dir == BaseDir(parent_path, folder_name)
                          try_dir == Probe(ds, folder, base_dir, base_dir, 2)
                      IN  [probed |-> TRUE, base_dir |-> base_dir,
                           folder_rename |->
                               IF try_dir # folder THEN <<folder, try_dir>> ELSE <<>>]

\* scan_album_folder(folder, file_list)
ScanAlbumFolder(ds, fs, folder, file_list, fail_at) ==
    LET st == FileLoop(folder, file_list, 1,
                       [files |-> fs, folder_data |-> <<>>, counts |-> NoCounts,
                        raised |-> FALSE, fail_at |-> fail_at])
        fr == FolderRename(ds, folder, st.folder_data)
    IN  [files |-> st.files, raised |-> st.raised, folder |-> folder,
         folder_data |-> st.folder_data, counts |-> st.counts,
         probed |-> fr.probed, base_dir |-> fr.base_dir,
         folder_rename |-> fr.folder_rename]

-----------------------------------------------------------------------------
(* os.rename on a directory *)

Moved(src, dst, p) == IF Below(src, p) THEN dst \o SubSeq(p, Len(src) + 1, Len(p)) ELSE p

RECURSIVE Without(_, _)
Without(q, x) ==
    IF q = <<>> THEN <<>>
    ELSE IF Head(q) = x THEN Without(Tail(q), x)
    ELSE <<Head(q)>> \o Without(Tail(q), x)

\* the directory d holds nothing
IsEmptyDir(ds, fs, d) ==
    /\ \A p \in Range(ds) : ~(Below(d, p) /\ p # d)
    /\ \A f \in fs : f.dir # d

\* os.rename(old, new) may succeed: old is a directory, the directory new goes to
\* exists, and new is free or an empty directory (which rename(2) replaces)
CanRenameDir(ds, fs, old, new) ==
    LET src == Resolve(old)
        dst == Resolve(new)
    IN  /\ src \in Range(ds)
        /\ DirOf(dst) \in Range(ds)
        /\ \A f \in fs : ~(f.dir = DirOf(dst) /\ f.name = SubSeq(dst, Len(DirOf(dst)) + 2, Len(dst)))
        /\ \/ dst = src
           \/ /\ ~Below(src, dst)
              /\ dst \in Range(ds) => IsEmptyDir(ds, fs, dst)

\* os.rename(old, new) on a directory; denied: the call fails for a reason the model
\* does not follow (permissions, a busy directory); a failed call changes nothing
RenameDir(ds, fs, old, new, denied) ==
    LET src == Resolve(old)
        dst == Resolve(new)
    IN  IF denied \/ ~CanRenameDir(ds, fs, old, new)
        THEN [ok |-> FALSE, dirs |-> ds, files |-> fs]
        ELSE IF dst = src THEN [ok |-> TRUE, dirs |-> ds, files |-> fs]
        ELSE LET kept == Without(ds, dst)
             IN  [ok |-> TRUE,
                  dirs |-> [i \in 1..Len(kept) |-> Moved(src, dst, kept[i])],
                  files |-> {[f EXCEPT !.dir = Moved(src, dst, f.dir)] : f \in fs}]

-----------------------------------------------------------------------------
(* walklevel and tags2name *)

\* every order of the elements of the set S
Orders(S) ==
    {q \in [1..Cardinality(S) -> S] : \A i, j \in 1..Cardinality(S) : q[i] = q[j] => i = j}

RECURSIVE SelectSeq2(_, _)
SelectSeq2(q, S) ==
    IF q = <<>> THEN <<>>
    ELSE (IF Head(q) \in S THEN <<Head(q)>> ELSE <<>>) \o SelectSeq2(Tail(q), S)

\* the orders os.scandir may list the entries q in: any order for a short listing,
\* the order they were created in for a long one
ListingOrders(q) == IF Len(q) <= MaxShuffle THEN Orders(Range(q)) ELSE {q}

\* dirs of os.walk: the directories directly inside root
SubDirs(ds, root) == SelectSeq2(ds, {p \in Range(ds) : p # root /\ DirOf(p) = root})

\* files of os.walk: the names of the files directly inside root
FileNames(fs, root) == {f.name : f \in {g \in fs : g.dir = root}}

\* num_sep of walklevel('.', level)
NumSep == CountChar(<<".">>, "/")

\* walklevel: the directories still to be yielded once root has been yielded with its
\* sub-directories in the order kids
WalkOn(lv, root, kids, rest) ==
    (IF NumSep + lv <= CountChar(root, "/") THEN <<>> ELSE kids) \o rest

\* the plans in the order they were queued in
ApplyOrderForward(renamed_folders) == renamed_folders

\* for ren in reversed(result['renamed_folders'])
ApplyOrder(renamed_folders) == Reverse(renamed_folders)

\* an OSError that ends the loop
AbortOnOSError == "done"

\* where tags2name goes on after `except OSError`
AfterOSError == "rename"

\* One turn of the loop of lines 226-237: os.walk yields the next directory and
\* scan_album_folder handles it.  An OSError of a file rename ends the program.
ScanFolder ==
    /\ pc = "walk"
    /\ todo # <<>>
    /\ LET root == Head(todo) IN
       \E file_list \in Orders(FileNames(files, root)),
          fail_at \in 0..Cardinality(FileNames(files, root)) :
          \E new_counts \in {ScanAlbumFolder(dirs, files, root, file_list, fail_at)},
             kids \in ListingOrders(SubDirs(dirs, root)) :
                /\ (fail_at # 0) => new_counts.raised
                /\ total_dirs' = total_dirs + 1
                /\ files' = new_counts.files
                /\ IF new_counts.raised
                   THEN /\ pc' = "crashed"
                        /\ UNCHANGED <<todo, result, scans>>
                   ELSE /\ pc' = "walk"
                        /\ todo' = WalkOn(level, root, kids, Tail(todo))
                        /\ result' =
                             [found |-> result.found + new_counts.counts.found,
                              renamed |-> result.renamed + new_counts.counts.renamed,
                              unchanged |-> result.unchanged + new_counts.counts.unchanged,
                              missing |-> result.missing + new_counts.counts.missing,
                              renamed_folders |->
                                  IF new_counts.folder_rename # <<>>
                                  THEN Append(result.renamed_folders, new_counts.folder_rename)
                                  ELSE result.renamed_folders]
                        /\ scans' = Append(scans,
                             [folder |-> root, folder_data |-> new_counts.folder_data,
                              probed |-> new_counts.probed, base_dir |-> new_counts.base_dir,
                              folder_rename |-> new_counts.folder_rename])
    /\ UNCHANGED <<dirs, level, ri, out, tvars>>

\* os.walk is exhausted: lines 238-239
WalkDone ==
    /\ pc = "walk"
    /\ todo = <<>>
    /\ pc' = "rename"
    /\ UNCHANGED <<dirs, files, level, todo, result, total_dirs, scans, ri, out, tvars>>

\* One turn of the loop of lines 241-246
RenameFolder ==
    /\ pc = "rename"
    /\ ri < Len(result.renamed_folders)
    /\ LET ren == ApplyOrder(result.renamed_folders)[ri + 1] IN
       \E denied \in BOOLEAN :
          \E r \in {RenameDir(dirs, files, ren[1], ren[2], denied)} :
                /\ dirs' = r.dirs
                /\ files' = r.files
                /\ out' = Append(out, [ren |-> ren, ok |-> r.ok])
                /\ pc' = IF r.ok THEN "rename" ELSE AfterOSError
    /\ ri' = ri + 1
    /\ UNCHANGED <<level, todo, result, total_dirs, scans, tvars>>

\* lines 247-255: the counts are printed and tags2name returns
Summary ==
    /\ pc = "rename"
    /\ ri = Len(result.renamed_folders)
    /\ pc' = "done"
    /\ UNCHANGED <<dirs, files, level, todo, result, total_dirs, scans, ri, out, tvars>>

Next == ScanFolder \/ WalkDone \/ RenameFolder \/ Summary

-----------------------------------------------------------------------------
(* The trees tags2name is run on *)

Root == <<".">>
Y2020 == <<"2", "0", "2", "0">>
MP3 == <<".", "m", "p", "3">>
FLACExt == <<".", "f", "l", "a", "c">>

\* the tags of one song
Song(album, title, track) ==
    [BaseValues EXCEPT !.album = StrV(album), !.title = StrV(title), !.track_num = StrV(track)]

MkFile(id, dir, name, tgs) ==
    [id |-> id, dir |-> dir, name |-> name, corrupt |-> FALSE, tags |-> tgs]

\* a file mutagen cannot decode
Damaged(id, dir, name) ==
    [id |-> id, dir |-> dir, name |-> name, corrupt |-> TRUE, tags |-> ID3Tags(BaseValues)]

BundleNames ==
    {"empty", "album", "twins", "mixed", "reissue", "damaged", "done", "dotted", "undated"}

\* the files of a directory, by the kind of directory it is
Bundle(b, dir, k) ==
    CASE b = "empty" -> {}
      [] b = "album" ->
            {MkFile(k + 1, dir, <<"a">> \o MP3, ID3Tags(Song(<<"D">>, <<"T">>, <<"1">>))),
             MkFile(k + 2, dir, <<"b">> \o FLACExt,
                    FLACTags(Song(<<"D">>, <<"U">>, <<"2", "/", "1", "2">>)))}
      [] b = "twins" ->
            {MkFile(k + 1, dir, <<"a">> \o MP3, ID3Tags(Song(<<"D">>, <<"T">>, <<"1">>))),
             MkFile(k + 2, dir, <<"b">> \o MP3, ID3Tags(Song(<<"D">>, <<"T">>, <<"1">>)))}
      [] b = "mixed" ->
            {MkFile(k + 1, dir, <<"a">> \o MP3, ID3Tags(Song(<<"D">>, <<"T">>, <<"1">>))),
             MkFile(k + 2, dir, <<"b">> \o MP3, ID3Tags(Song(<<"E">>, <<"U">>, <<"2">>)))}
      [] b = "reissue" ->
            {MkFile(k + 1, dir, <<"a">> \o MP3, ID3Tags(Song(<<"D">>, <<"T">>, <<"1">>))),
             MkFile(k + 2, dir, <<"b">> \o MP3,
                    ID3Tags([Song(<<"D">>, <<"U">>, <<"2">>) EXCEPT !.orig_year = TsV(1999)]))}
      [] b = "damaged" ->
            {MkFile(k + 1, dir, <<"a">> \o MP3, ID3Tags(Song(<<"D">>, <<"T">>, <<"1">>))),
             Damaged(k + 2, dir, <<"b">> \o MP3)}
      [] b = "done" ->
            {MkFile(k + 1, dir,
                    NewName(Scrub(SetTags(NewTags, ID3Tags(Song(<<"D">>, <<"T">>, <<"1">>)))), MP3),
                    ID3Tags(Song(<<"D">>, <<"T">>, <<"1">>))),
             MkFile(k + 2, dir, <<"c", ".", "t", "x", "t">>,
                    ID3Tags(Song(<<"D">>, <<"U">>, <<"2">>)))}
      [] b = "dotted" ->
            {MkFile(k + 1, dir, <<"a">> \o MP3, ID3Tags(Song(<<"D", ".">>, <<"T">>, <<"1">>)))}
      [] b = "undated" ->
            {MkFile(k + 1, dir, <<"a">> \o MP3,
                    ID3Tags([Song(<<"D">>, <<"T">>, <<"1">>) EXCEPT !.year = NoneV]))}

NameD == FolderName(Y2020, <<"D">>)
DirNames == {<<"a">>, <<"a", "b">>, NameD, NameD \o <<" ", "(", "2", ")">>}

\* the n-th name the probe of scan_album_folder tries
Candidate(base, n) ==
    IF n = 1 THEN base ELSE base \o <<" ", "(">> \o PyStr(n) \o <<")">>

\* a tree: its directories below the root in creation order, with the kind of each
OneDir == {<<[path |-> Join(Root, n), b |-> b]>> : n \in DirNames, b \in BundleNames}

Siblings ==
    {<<[path |-> Join(Root, n1), b |-> b1], [path |-> Join(Root, n2), b |-> b2]>> :
        n1 \in DirNames, n2 \in DirNames, b1 \in {"empty", "album", "mixed", "damaged"},
        b2 \in {"empty", "album", "mixed"}}

Nested ==
    {<<[path |-> Join(Root, n1), b |-> b1], [path |-> Join(Join(Root, n1), n2), b |-> b2]>> :
        n1 \in DirNames, n2 \in DirNames, b1 \in {"empty", "album", "mixed", "damaged"},
        b2 \in {"empty", "album", "mixed"}}

\* an album in ./a beside the first k names the probe tries for it, all taken
Crowded ==
    {<<[path |-> Join(Root, <<"a">>), b |-> "album"]>>
        \o [n \in 1..k |-> [path |-> Candidate(Join(Root, NameD), n), b |-> "empty"]] :
        k \in {ProbeLimit - 2, ProbeLimit - 1}}

Trees ==
    {<<>>} \cup OneDir \cup {t \in Siblings : t[1].path # t[2].path} \cup Nested \cup Crowded

TreeDirs(t) == <<Root>> \o [i \in 1..Len(t) |-> t[i].path]

TreeFiles(rootb, t) ==
    Bundle(rootb, Root, 0) \cup UNION {Bundle(t[i].b, t[i].path, 10 * i) : i \in 1..Len(t)}

NoResult ==
    [found |-> 0, renamed |-> 0, unchanged |-> 0, missing |-> 0, renamed_folders |-> <<>>]

\* tags2name(recursion_level) is entered in the directory '.'
WalkInit ==
    /\ level \in 0..MaxLevel
    /\ \E t \in Trees, rootb \in {"empty", "album"} :
          /\ dirs = TreeDirs(t)
          /\ files = TreeFiles(rootb, t)
    /\ pc = "walk"
    /\ todo = <<Root>>
    /\ result = NoResult
    /\ total_dirs = 0
    /\ scans = <<>>
    /\ ri = 0
    /\ out = <<>>

\* the normaliser is not in use
TagsIdle ==
    /\ raw = ID3Tags(BaseValues)
    /\ ftags = NewTags
    /\ prev = NewTags
    /\ tpc = "new"

\* tags2name is not running
WalkIdle ==
    /\ level = 0
    /\ dirs = <<Root>>
    /\ files = {}
    /\ pc = "done"
    /\ todo = <<>>
    /\ result = NoResult
    /\ total_dirs = 0
    /\ scans = <<>>
    /\ ri = 0
    /\ out = <<>>

Init == WalkInit /\ TagsIdle

Spec == Init /\ [][Next]_vars

-----------------------------------------------------------------------------
(* The normaliser as a state machine: FileTags(), set_tags(tags), scrub() *)

TagsInit ==
    /\ WalkIdle
    /\ raw \in RawInputs
    /\ ftags = NewTags
    /\ prev = NewTags
    /\ tpc = "new"

DoSetTags ==
    /\ tpc = "new"
    /\ ftags' = SetTags(ftags, raw)
    /\ prev' = ftags
    /\ tpc' = "set"
    /\ UNCHANGED <<raw, wvars>>

DoScrub ==
    /\ tpc \in {"set", "scrubbed"}
    /\ ftags' = Scrub(ftags)
    /\ prev' = ftags
    /\ tpc' = IF tpc = "set" THEN "scrubbed" ELSE "rescrubbed"
    /\ UNCHANGED <<raw, wvars>>

TagsNext == DoSetTags \/ DoScrub

SpecTags == TagsInit /\ [][TagsNext]_vars


-----------------------------------------------------------------------------
(* Properties *)

RECURSIVE NonMissing(_)
\* the entries of folder_data of the files classified renamed or unchanged
NonMissing(fd) ==
    IF fd = <<>> THEN <<>>
    ELSE (IF Head(fd).class # "missing" THEN <<Head(fd)>> ELSE <<>>) \o NonMissing(Tail(fd))

\* every entry of fd carries one non-empty year and one non-empty album
Agree(fd) ==
    /\ fd # <<>>
    /\ \A i \in 1..Len(fd) :
          /\ IsStr(fd[i].year) /\ fd[i].year.s # <<>> /\ fd[i].album # <<>>
          /\ fd[i].year = fd[1].year /\ fd[i].album = fd[1].album

\* old_path up to and including its last separator
Leading(path) ==
    LET k == TrailingRun(path, {c \in Range(path) : c # "/"})
    IN  SubSeq(path, 1, Len(path) - k)

\* the directory a lies above the path p (both as os.walk writes them)
AncestorOf(a, p) == StartsWith(p, a \o <<"/">>) /\ p # a \o <<"/">>

Plans == result.renamed_folders

LastCandidate == ProbeLimit - 1

\* the candidates that are no existing directory
FreeCandidates(base) == {n \in 1..LastCandidate : ~IsDir(dirs, Candidate(base, n))}

Least(S) == CHOOSE n \in S : \A m \in S : n <= m

\* C1: folder renames start only when the traversal is over, they are attempted in the
\* reverse of the order the plans were queued in, and when a plan is attempted no plan
\* of an ancestor of its old_path has been attempted while every queued plan of a
\* descendant of its old_path has been.
C1_DeferredDeepestFirst ==
    /\ (out # <<>> \/ ri > 0) => (pc \in {"rename", "done"} /\ todo = <<>>)
    /\ Len(out) <= Len(Plans)
    /\ \A i \in 1..Len(out) :
          /\ out[i].ren = Reverse(Plans)[i]
          /\ \A j \in 1..(i - 1) : ~AncestorOf(out[j].ren[1], out[i].ren[1])
          /\ \A k \in 1..Len(Plans) :
                AncestorOf(out[i].ren[1], Plans[k][1])
                    => \E j \in 1..(i - 1) : out[j].ren = Plans[k]

\* C1 witness: a folder was renamed after a folder inside it had been
C1_Witness ==
    \E i, j \in 1..Len(out) :
        i < j /\ out[i].ok /\ out[j].ok /\ AncestorOf(out[j].ren[1], out[i].ren[1])

\* C2 as claimed: a directory other than the root whose renamed/unchanged files agree on
\* a non-empty year and album, and whose name is not '[YEAR] ALBUM', is considered for a
\* rename however many of its files were classified missing.
C2_MissingFilesIgnored ==
    \A i \in 1..Len(scans) :
        LET nm == NonMissing(scans[i].folder_data)
        IN  (/\ scans[i].folder # Root
             /\ Agree(nm)
             /\ TrailingComponent(scans[i].folder) # FolderName(nm[1].year.s, nm[1].album))
                => scans[i].probed

\* C2 amended: the decision rests on the pairs of every file with a supported extension,
\* the missing ones included: such a directory is considered when none of its files was
\* classified missing, and a directory with a missing file is never considered nor
\* queued.
C2_AllSupportedFilesDecide ==
    \A i \in 1..Len(scans) :
        LET fd == scans[i].folder_data
            nm == NonMissing(fd)
        IN  /\ (/\ scans[i].folder # Root
                /\ Len(nm) = Len(fd)
                /\ Agree(nm)
                /\ TrailingComponent(scans[i].folder) # FolderName(nm[1].year.s, nm[1].album))
                   => scans[i].probed
            /\ Len(nm) < Len(fd) => (~scans[i].probed /\ scans[i].folder_rename = <<>>)

\* C2 witness: a directory of two renamed files that agree was considered
C2_Witness ==
    \E i \in 1..Len(scans) :
        /\ scans[i].probed
        /\ Len(scans[i].folder_data) = 2
        /\ \A k \in 1..2 : scans[i].folder_data[k].class = "renamed"

\* C3: a plan is queued only for a directory that has a renamed/unchanged file and whose
\* renamed/unchanged files all carry the same non-empty year and the same non-empty
\* album.
C3_PlanOnlyWhenUnanimous ==
    \A i \in 1..Len(scans) :
        scans[i].folder_rename # <<>> => Agree(NonMissing(scans[i].folder_data))

\* C3 witness: two renamed files that differ in year or album left their folder unplanned
C3_Witness ==
    \E i \in 1..Len(scans) :
        LET nm == NonMissing(scans[i].folder_data)
        IN  /\ scans[i].folder # Root
            /\ Len(nm) = 2
            /\ (nm[1].year # nm[2].year \/ nm[1].album # nm[2].album)
            /\ scans[i].folder_rename = <<>>

\* C4 as claimed: every queued plan keeps the leading path components of old_path:
\* new_path is old_path with only its trailing component replaced.
C4_SameParent ==
    \A k \in 1..Len(Plans) :
        LET old == Plans[k][1]
            new == Plans[k][2]
        IN  /\ StartsWith(new, Leading(old))
            /\ \A n \in (Len(Leading(old)) + 1)..Len(new) : new[n] \notin Seps

\* C5 as claimed: the new_path of a queued plan is the first of base, base (2), ... that
\* is no existing directory when the plan is made (no directory changes during the walk,
\* so dirs is what existed then as long as pc = "walk").
C5_FirstFreeCandidate ==
    pc = "walk" =>
        \A i \in 1..Len(scans) :
            scans[i].folder_rename # <<>> =>
                /\ FreeCandidates(scans[i].base_dir) # {}
                /\ scans[i].folder_rename[2]
                       = Candidate(scans[i].base_dir, Least(FreeCandidates(scans[i].base_dir)))

\* C5 amended: the candidates are base, base (2), ..., base (99); the new_path of a
\* queued plan is the first of them that is no existing directory, and base (99), an
\* existing directory, when all 99 exist.
C5_FirstFreeOrLast ==
    pc = "walk" =>
        \A i \in 1..Len(scans) :
            scans[i].folder_rename # <<>> =>
                LET free == FreeCandidates(scans[i].base_dir)
                IN  scans[i].folder_rename[2]
                        = Candidate(scans[i].base_dir,
                                    IF free # {} THEN Least(free) ELSE LastCandidate)

\* C5 witness: a plan whose new_path carries a counter, the names before it being taken
C5_Witness ==
    /\ pc = "walk"
    /\ \E i \in 1..Len(scans), n \in 2..LastCandidate :
          /\ scans[i].folder_rename # <<>>
          /\ scans[i].folder_rename[2] = Candidate(scans[i].base_dir, n)
          /\ ~IsDir(dirs, scans[i].folder_rename[2])

\* the track number text set_tags was given ('' when there is none)
TrackInput ==
    IF "TRCK" \in DOMAIN raw THEN raw["TRCK"].text[1].s
    ELSE IF "TRACKNUMBER" \in DOMAIN raw THEN raw["TRACKNUMBER"].items[1].s
    ELSE <<>>

AllDigits(s) == \A i \in 1..Len(s) : s[i] \in Digits

\* the text before the first '/' of s
BeforeSlash(s) ==
    SubSeq(s, 1, Least({i \in 1..Len(s) : s[i] = "/"} \cup {Len(s) + 1}) - 1)

HasNumerator(s) == BeforeSlash(s) # <<>> /\ BeforeSlash(s) # s /\ AllDigits(BeforeSlash(s))

\* a number written with at least two digits
Padded(n) == IF Len(n) = 0 THEN <<"0", "0">> ELSE IF Len(n) = 1 THEN <<"0">> \o n ELSE n

\* C6 as claimed: track_num becomes the zero-padded numerator of 'digits/...', the
\* zero-padded number of a plain number, and stays empty when it is empty or absent.
C6_EmptyTrackStaysEmpty ==
    tpc = "set" =>
        /\ HasNumerator(TrackInput) => ftags.track_num = StrV(Padded(BeforeSlash(TrackInput)))
        /\ (TrackInput # <<>> /\ AllDigits(TrackInput))
              => ftags.track_num = StrV(Padded(TrackInput))
        /\ TrackInput = <<>> => ftags.track_num = StrV(<<>>)

\* C6 amended: track_num becomes the zero-padded numerator of 'digits/...' ("3/12" gives
\* "03"), the zero-padded number of a plain number ("7" gives "07"), and "00" when it is
\* empty or absent.
C6_TrackNumPadded ==
    tpc = "set" =>
        /\ IsStr(ftags.track_num)
        /\ HasNumerator(TrackInput) => ftags.track_num = StrV(Padded(BeforeSlash(TrackInput)))
        /\ (TrackInput # <<>> /\ AllDigits(TrackInput))
              => ftags.track_num = StrV(Padded(TrackInput))
        /\ TrackInput = <<>> => ftags.track_num = StrV(<<"0", "0">>)
        /\ TrackInput = <<"3", "/", "1", "2">> => ftags.track_num = StrV(<<"0", "3">>)
        /\ TrackInput = <<"7">> => ftags.track_num = StrV(<<"0", "7">>)

\* C6 witness: set_tags has formatted the track number "3/12"
C6_Witness ==
    tpc = "set" /\ TrackInput = <<"3", "/", "1", "2">> /\ ftags.track_num.s = <<"0", "3">>

\* no character of s is forbidden in a file name
Clean(s) == \A i \in 1..Len(s) : s[i] \notin ForbiddenChars

\* C7: the loop of folder renames attempts every queued plan once, in turn, whatever the
\* earlier attempts gave; a failed attempt changes no path; and the loop never ends the
\* program early.
C7_EveryPlanAttemptedOnce ==
    /\ [](/\ pc = "rename" => Len(out) = ri
          /\ pc = "done" => /\ Len(out) = Len(Plans)
                            /\ \A k \in 1..Len(Plans) :
                                  Cardinality({i \in 1..Len(out) : out[i].ren = Plans[k]}) = 1
          /\ pc = "crashed" => out = <<>>)
    /\ [][(Len(out') = Len(out) + 1 /\ ~out'[Len(out')].ok)
              => (dirs' = dirs /\ files' = files /\ pc' = "rename")]_vars

\* C7 witness: a failed folder rename was followed by another attempt and the summary
C7_Witness ==
    /\ pc = "done"
    /\ \E i, j \in 1..Len(out) : i < j /\ ~out[i].ok /\ out[j].ok

\* C8: scrubbing a scrubbed tag set changes nothing, and after set_tags and scrub no
\* string-valued tag, no file name rename_file builds and no folder name
\* scan_album_folder builds holds a forbidden character.
C8_ScrubIdempotentAndClean ==
    /\ tpc = "rescrubbed" => ftags = prev
    /\ tpc \in {"scrubbed", "rescrubbed"} =>
          /\ \A tag \in TagNames : IsStr(ftags[tag]) => Clean(ftags[tag].s)
          /\ \A ext \in VALID_FILE_TYPES : Clean(NewName(ftags, ext))
          /\ IsStr(OldestYear(ftags)) => Clean(FolderName(OldestYear(ftags).s, ftags.album.s))

\* C8 witness: a tag set whose album held two forbidden characters was scrubbed twice
C8_Witness ==
    /\ tpc = "rescrubbed"
    /\ "TALB" \in DOMAIN raw
    /\ Len(raw["TALB"].text[1].s) = 2
    /\ \A i \in 1..2 : raw["TALB"].text[1].s[i] = "?"

\* C9 as claimed: no two plans queued by one walk have the same new_path.
C9_DistinctTargets ==
    \A i, j \in 1..Len(Plans) : i # j => Plans[i][2] # Plans[j][2]

\* C10 as claimed: no step loses a file: every file that exists still exists afterwards,
\* under its old or a new name.
C10_NoFileLost ==
    [][\A f \in files : \E g \in files' : g.id = f.id]_vars

====
